---- MODULE Spec2Model ----
(***************************************************************************)
(* Model of mulligan.py: the Mulligan class.  An object is constructed     *)
(* from a match history (pages of games), a tracked deck type, a list of   *)
(* opponent deck types and a deck list; set_max_turn configures the turn   *)
(* ceiling; evaluate / evaluate_deck_list compute the statistics and       *)
(* print_result / print_result_to_xlsx render a result list.               *)
(*                                                                         *)
(* Python tuples are 0-based, TLA+ tuples 1-based: deck_type[0] (the deck) *)
(* is deck_type[1] here and deck_type[1] (the hero) is deck_type[2].       *)
(* Dictionary keys with blanks are written with underscores                *)
(* ('number of games' is number_of_games).                                 *)
(***************************************************************************)
EXTENDS Integers, Sequences, FiniteSets

VARIABLES constructed, data, deck_type, opponent_deck_type_tuples_list,
          deck_list, max_turn, ret

vars == <<constructed, data, deck_type, opponent_deck_type_tuples_list,
          deck_list, max_turn, ret>>

(***************************************************************************)
(* Bounds of the model.                                                    *)
(***************************************************************************)
MaxGames == 2
MaxPages == 2
MaxTurnArg == 1

(***************************************************************************)
(* The default turn ceiling of __init__.                                   *)
(***************************************************************************)
DefaultMaxTurn == 9999

(***************************************************************************)
(* Input universe: deck types, cards, plays, card histories and games.     *)
(***************************************************************************)
Tracked == <<"Midrange", "Shaman">>
OwnOtherDeck == <<"Aggro", "Shaman">>
OwnOtherHero == <<"Midrange", "Warrior">>
P1 == <<"Aggro", "Warrior">>
P2 == <<"Aggro", "Shaman">>
P3 == <<"Midrange", "Warrior">>

Coin == [id |-> "GAME_005", name |-> "Coin"]
Backstab == [id |-> "CS2_072", name |-> "Backstab"]

Play(p, c, t) == [player |-> p, card |-> c, turn |-> t]

CardHistories ==
    { <<>>,
      <<Play("me", Coin, 1)>>,
      <<Play("me", Coin, 1), Play("opponent", Coin, 1), Play("me", Coin, 2)>> }

\* A card history in which only the opponent played Coin.
OtherHistory == <<Play("opponent", Coin, 1), Play("me", Backstab, 2)>>

Game(own, opp, res, hist) ==
    [hero |-> own[2], hero_deck |-> own[1], opponent |-> opp[2],
     opponent_deck |-> opp[1], result |-> res, card_history |-> hist]

\* Games of the tracked deck against P1 with every result and card history.
HistoryGames ==
    { Game(Tracked, P1, res, hist) : res \in {"win", "loss"}, hist \in CardHistories }

\* Games that differ from those in one component of the own or opponent deck.
IdentityGames ==
    { Game(Tracked, P2, "win", OtherHistory),
      Game(Tracked, P3, "win", OtherHistory),
      Game(OwnOtherDeck, P1, "win", OtherHistory),
      Game(OwnOtherHero, P1, "win", OtherHistory) }

Games == HistoryGames \cup IdentityGames

SeqUpTo(S, n) == UNION { [1..k -> S] : k \in 0..n }

\* gs cut into pages after the positions in cuts.
RECURSIVE Split(_, _)
Split(gs, cuts) ==
    IF cuts = {} THEN <<gs>>
    ELSE LET c == CHOOSE x \in cuts : \A y \in cuts : x <= y
         IN <<SubSeq(gs, 1, c)>> \o
            Split(SubSeq(gs, c + 1, Len(gs)), { y - c : y \in cuts \ {c} })

\* A .json history is one page; an account delivers non-empty pages.
JsonSources == { [kind |-> "json", pages |-> <<gs>>] : gs \in SeqUpTo(Games, MaxGames) }

AccountSources ==
    { [kind |-> "account", pages |-> <<>>] } \cup
    UNION { { [kind |-> "account", pages |-> Split(gs, cuts)] :
                cuts \in { c \in SUBSET (1..(Len(gs) - 1)) : Cardinality(c) < MaxPages } } :
            gs \in SeqUpTo(Games, MaxGames) \ {<<>>} }

DataSources == JsonSources \cup AccountSources \cup { [kind |-> "invalid", pages |-> <<>>] }

DeckTypes == { Tracked }
OpponentLists == { <<>>, <<P1, P2, P1>> }
\* Deck lists handed to the constructor, and card lists handed to evaluate_deck_list.
DeckLists == { <<>>, <<"Coin", "CS2_072", "Coin">> }
CardLists == { <<>>, <<"Coin">>, <<"Backstab", "Coin", "Coin">> }

(***************************************************************************)
(* The object, as the methods see it.                                      *)
(***************************************************************************)
Self ==
    [data |-> data, deck_type |-> deck_type,
     opponent_deck_type_tuples_list |-> opponent_deck_type_tuples_list,
     deck_list |-> deck_list, max_turn |-> max_turn]

\* card in cards['card'].values()
InValues(card, d) == \E k \in DOMAIN d : d[k] = card

\* find_card without the check that "me" played the card.
find_card_any_player(self, card, game) ==
    IF \E i \in 1..Len(game.card_history) :
          LET cards == game.card_history[i]
          IN InValues(card, cards.card) /\ (cards.turn <= self.max_turn)
    THEN <<game>>
    ELSE <<>>

\* find_card returns the game or False; here <<game>> or <<>>.
find_card(self, card, game) ==
    IF \E i \in 1..Len(game.card_history) :
          LET cards == game.card_history[i]
          IN (cards.player = "me") /\ InValues(card, cards.card)
             /\ (cards.turn <= self.max_turn)
    THEN <<game>>
    ELSE <<>>

\* find_hero_deck comparing the hero only.
RECURSIVE find_hero_deck_hero_only(_, _, _, _)
find_hero_deck_hero_only(self, pages, hero, hero_deck) ==
    IF pages = <<>> THEN <<>>
    ELSE SelectSeq(Head(pages), LAMBDA game : game.hero = hero)
         \o find_hero_deck_hero_only(self, Tail(pages), hero, hero_deck)

RECURSIVE find_hero_deck(_, _, _, _)
find_hero_deck(self, pages, hero, hero_deck) ==
    IF pages = <<>> THEN <<>>
    ELSE SelectSeq(Head(pages),
                   LAMBDA game : (game.hero = hero) /\ (game.hero_deck = hero_deck))
         \o find_hero_deck(self, Tail(pages), hero, hero_deck)

\* find_opponent_deck with "or" between its two comparisons.
find_opponent_deck_either(self, page, opponent, opponent_deck) ==
    SelectSeq(page,
              LAMBDA game : (game.opponent = opponent) \/ (game.opponent_deck = opponent_deck))

find_opponent_deck(self, page, opponent, opponent_deck) ==
    SelectSeq(page,
              LAMBDA game : (game.opponent = opponent) /\ (game.opponent_deck = opponent_deck))

\* times_played without the check that "me" played the card.
RECURSIVE times_played_any_player(_, _, _)
times_played_any_player(self, card, valid_games) ==
    IF valid_games = <<>> THEN 0
    ELSE Len(SelectSeq(Head(valid_games).card_history,
                       LAMBDA cards : InValues(card, cards.card)
                                      /\ (cards.turn <= self.max_turn)))
         + times_played_any_player(self, card, Tail(valid_games))

\* times_played with "<" for "<=" in the turn comparison.
RECURSIVE times_played_before_max_turn(_, _, _)
times_played_before_max_turn(self, card, valid_games) ==
    IF valid_games = <<>> THEN 0
    ELSE Len(SelectSeq(Head(valid_games).card_history,
                       LAMBDA cards : (cards.player = "me") /\ InValues(card, cards.card)
                                      /\ (cards.turn < self.max_turn)))
         + times_played_before_max_turn(self, card, Tail(valid_games))

\* times_played with "==" for "<=" in the turn comparison.
RECURSIVE times_played_at_max_turn(_, _, _)
times_played_at_max_turn(self, card, valid_games) ==
    IF valid_games = <<>> THEN 0
    ELSE Len(SelectSeq(Head(valid_games).card_history,
                       LAMBDA cards : (cards.player = "me") /\ InValues(card, cards.card)
                                      /\ (cards.turn = self.max_turn)))
         + times_played_at_max_turn(self, card, Tail(valid_games))

RECURSIVE times_played(_, _, _)
times_played(self, card, valid_games) ==
    IF valid_games = <<>> THEN 0
    ELSE Len(SelectSeq(Head(valid_games).card_history,
                       LAMBDA cards : (cards.player = "me") /\ InValues(card, cards.card)
                                      /\ (cards.turn <= self.max_turn)))
         + times_played(self, card, Tail(valid_games))

count_wins(self, games) == Len(SelectSeq(games, LAMBDA game : game.result = "win"))

RECURSIVE find_games_with_card(_, _, _)
find_games_with_card(self, card, games) ==
    IF games = <<>> THEN <<>>
    ELSE find_card(self, card, Head(games)) \o find_games_with_card(self, card, Tail(games))

card_result(self, card, games) ==
    LET games_with_card_played == find_games_with_card(self, card, games)
    IN [card |-> card,
        number_of_wins_with_card |-> count_wins(self, games_with_card_played),
        number_of_games_with_card |-> Len(games_with_card_played),
        times_played |-> times_played(self, card, games_with_card_played)]

evaluate_deck_list(self, dl, games) ==
    [j \in 1..Len(dl) |-> card_result(self, dl[j], games)]

matchup_result(self, valid_games, deck_types) ==
    LET opponent == deck_types[2]
        opponent_deck == deck_types[1]
        games_vs_opponent == find_opponent_deck(self, valid_games, opponent, opponent_deck)
    IN [opponent |-> opponent, opponent_deck |-> opponent_deck,
        number_of_games |-> Len(games_vs_opponent),
        number_of_wins |-> count_wins(self, games_vs_opponent),
        cards_evaluated |-> evaluate_deck_list(self, self.deck_list, games_vs_opponent)]

evaluate(self) ==
    LET hero == self.deck_type[2]
        hero_deck == self.deck_type[1]
        valid_games == find_hero_deck(self, self.data, hero, hero_deck)
    IN [i \in 1..Len(self.opponent_deck_type_tuples_list) |->
           matchup_result(self, valid_games, self.opponent_deck_type_tuples_list[i])]

\* The active deck types of the bundled deck-type file.
load_decktypes_from_json == <<P1, P3>>

(***************************************************************************)
(* Rendering.  A win rate is kept as the exact quotient it is computed     *)
(* from; a division by zero is the ZeroDivisionError Python raises.        *)
(***************************************************************************)
Rate(num, den) ==
    IF den = 0 THEN [kind |-> "ZeroDivisionError"]
    ELSE [kind |-> "rate", num |-> num * 100, den |-> den]

NA == [kind |-> "text", text |-> "N/A"]

Line(text, args) == [text |-> text, args |-> args]

RECURSIVE Concat(_)
Concat(seqs) == IF seqs = <<>> THEN <<>> ELSE Head(seqs) \o Concat(Tail(seqs))

\* What the statements of a print or write sequence leave behind: all of them,
\* or those before the first one whose argument raises.
UntilRaise(items, bad) ==
    IF bad = {} THEN [raised |-> "none", out |-> items]
    ELSE LET first == CHOOSE i \in bad : \A j \in bad : i <= j
         IN [raised |-> "ZeroDivisionError", out |-> SubSeq(items, 1, first - 1)]

\* print_card_lines without the guard on times played.
print_card_lines_unguarded(cards) ==
    << Line("Number of games with card:", <<cards.number_of_games_with_card>>),
       Line("was played", <<cards.card, cards.times_played>>),
       Line("Number of wins with:", <<cards.card, cards.number_of_wins_with_card>>),
       Line("Win %", <<Rate(cards.number_of_wins_with_card,
                            cards.number_of_games_with_card)>>) >>

\* print_result: the lines of one card of a matchup.
print_card_lines(cards) ==
    IF cards.times_played > 0
    THEN << Line("Number of games with card:", <<cards.number_of_games_with_card>>),
            Line("was played", <<cards.card, cards.times_played>>),
            Line("Number of wins with:", <<cards.card, cards.number_of_wins_with_card>>),
            Line("Win %", <<Rate(cards.number_of_wins_with_card,
                                 cards.number_of_games_with_card)>>) >>
    ELSE <<>>

\* print_result: the lines of one matchup.
print_matchup_lines(result) ==
    << Line("----------------------------------------", <<>>) >> \o
    IF result.number_of_games > 0
    THEN << Line("Result for", <<result.opponent_deck, result.opponent>>),
            Line("Number of games:", <<result.number_of_games>>),
            Line("Number of wins:", <<result.number_of_wins>>),
            Line("Win %", <<Rate(result.number_of_wins, result.number_of_games)>>) >>
         \o Concat([j \in 1..Len(result.cards_evaluated) |->
                       print_card_lines(result.cards_evaluated[j])])
    ELSE << Line("No games against", <<result.opponent_deck, result.opponent>>) >>

print_result(self, result_list) ==
    LET lines == Concat([i \in 1..Len(result_list) |-> print_matchup_lines(result_list[i])])
    IN UntilRaise(lines, { i \in 1..Len(lines) :
                             lines[i].text = "Win %"
                             /\ lines[i].args[1].kind = "ZeroDivisionError" })

DefaultFilename == "mullipy_results.xlsx"

Cell(row, col, value) == [row |-> row, col |-> col, value |-> value]

xlsx_headlines ==
    << Cell(0, 0, "Opponent Hero"), Cell(0, 1, "Opponent Deck"), Cell(0, 2, "Wins"),
       Cell(0, 3, "Losses"), Cell(0, 4, "Win %"), Cell(0, 5, "Card"),
       Cell(0, 6, "Times played"), Cell(0, 7, "Wins with card"),
       Cell(0, 8, "Losses with card"), Cell(0, 9, "Win % with card played") >>

\* print_result_to_xlsx: the cells of one card, written to the given row.
xlsx_card_cells(cards, row, col) ==
    << Cell(row, col + 5, cards.card),
       Cell(row, col + 6, cards.times_played),
       Cell(row, col + 7, cards.number_of_wins_with_card),
       Cell(row, col + 8, cards.number_of_games_with_card - cards.number_of_wins_with_card),
       IF cards.number_of_games_with_card > 0
       THEN Cell(row, col + 9, Rate(cards.number_of_wins_with_card,
                                    cards.number_of_games_with_card))
       ELSE Cell(row, col + 9, NA) >>

\* print_result_to_xlsx: the cells of the matchups from the given row on.
RECURSIVE xlsx_result_cells(_, _, _)
xlsx_result_cells(result_list, row, col) ==
    IF result_list = <<>> THEN <<>>
    ELSE LET result == Head(result_list)
         IN IF result.number_of_games > 0
            THEN LET r == row + 1
                     readable_deck == IF result.opponent_deck = "" THEN "Other"
                                      ELSE result.opponent_deck
                     n == Len(result.cards_evaluated)
                 IN << Cell(r, col, result.opponent),
                       Cell(r, col + 1, readable_deck),
                       Cell(r, col + 2, result.number_of_wins),
                       Cell(r, col + 3, result.number_of_games - result.number_of_wins),
                       Cell(r, col + 4, Rate(result.number_of_wins, result.number_of_games)) >>
                    \o Concat([j \in 1..n |->
                                  xlsx_card_cells(result.cards_evaluated[j], r + j, col)])
                    \o xlsx_result_cells(Tail(result_list), r + n, col)
            ELSE xlsx_result_cells(Tail(result_list), row, col)

print_result_to_xlsx(self, result_list, filename) ==
    LET cells == xlsx_headlines \o xlsx_result_cells(result_list, 0, 0)
        written == UntilRaise(cells, { i \in 1..Len(cells) :
                                         cells[i].col \in {4, 9} /\ cells[i].row > 0
                                         /\ cells[i].value.kind = "ZeroDivisionError" })
    IN [raised |-> written.raised,
        out |-> [filename |-> filename,
                 worksheet |-> <<self.deck_type[2], " ", self.deck_type[1]>>,
                 cells |-> written.out]]

(***************************************************************************)
(* Actions.  ret is what the last call returned or raised.                 *)
(***************************************************************************)
Returned(op, arg, val) == [op |-> op, arg |-> arg, raised |-> "none", val |-> val]
Raised(op, arg, exc) == [op |-> op, arg |-> arg, raised |-> exc, val |-> <<>>]

Init ==
    /\ constructed = FALSE
    /\ data = <<>>
    /\ deck_type = <<>>
    /\ opponent_deck_type_tuples_list = <<>>
    /\ deck_list = <<>>
    /\ max_turn = DefaultMaxTurn
    /\ ret = Returned("none", <<>>, <<>>)

\* Construct without the check of the deck list.
Construct_any_deck_list(source, dt, ol, dl) ==
    /\ ~constructed
    /\ ret.op = "none"
    /\ IF source.kind = "invalid"
       THEN /\ ret' = Raised("__init__", <<>>, "Warning")
            /\ UNCHANGED <<constructed, data, deck_type,
                           opponent_deck_type_tuples_list, deck_list, max_turn>>
       ELSE /\ constructed' = TRUE
            /\ data' = source.pages
            /\ deck_type' = dt
            /\ opponent_deck_type_tuples_list' =
                   IF ol = <<>> THEN load_decktypes_from_json ELSE ol
            /\ deck_list' = dl
            /\ max_turn' = DefaultMaxTurn
            /\ ret' = Returned("__init__", <<>>, <<>>)

Construct(source, dt, ol, dl) ==
    /\ ~constructed
    /\ ret.op = "none"
    /\ IF source.kind = "invalid"
       THEN /\ ret' = Raised("__init__", <<>>, "Warning")
            /\ UNCHANGED <<constructed, data, deck_type,
                           opponent_deck_type_tuples_list, deck_list, max_turn>>
       ELSE IF dl = <<>>
       THEN /\ ret' = Raised("__init__", <<>>, "TypeError")
            /\ UNCHANGED <<constructed, data, deck_type,
                           opponent_deck_type_tuples_list, deck_list, max_turn>>
       ELSE /\ constructed' = TRUE
            /\ data' = source.pages
            /\ deck_type' = dt
            /\ opponent_deck_type_tuples_list' =
                   IF ol = <<>> THEN load_decktypes_from_json ELSE ol
            /\ deck_list' = dl
            /\ max_turn' = DefaultMaxTurn
            /\ ret' = Returned("__init__", <<>>, <<>>)

\* SetMaxTurn assigning before it checks.
SetMaxTurn_assign_first(v) ==
    /\ constructed
    /\ max_turn' = v
    /\ ret' = IF v > 0 THEN Returned("set_max_turn", v, <<>>)
              ELSE Raised("set_max_turn", v, "TypeError")
    /\ UNCHANGED <<constructed, data, deck_type, opponent_deck_type_tuples_list, deck_list>>

\* SetMaxTurn with ">=" for ">".
SetMaxTurn_accept_zero(v) ==
    /\ constructed
    /\ IF v >= 0
       THEN /\ max_turn' = v
            /\ ret' = Returned("set_max_turn", v, <<>>)
       ELSE /\ max_turn' = max_turn
            /\ ret' = Raised("set_max_turn", v, "TypeError")
    /\ UNCHANGED <<constructed, data, deck_type, opponent_deck_type_tuples_list, deck_list>>

SetMaxTurn(v) ==
    /\ constructed
    /\ IF v > 0
       THEN /\ max_turn' = v
            /\ ret' = Returned("set_max_turn", v, <<>>)
       ELSE /\ max_turn' = max_turn
            /\ ret' = Raised("set_max_turn", v, "TypeError")
    /\ UNCHANGED <<constructed, data, deck_type, opponent_deck_type_tuples_list, deck_list>>

\* Every game of the store, page after page: the match list of the direct calls.
RECURSIVE StoredGames(_)
StoredGames(pages) ==
    IF pages = <<>> THEN <<>> ELSE Head(pages) \o StoredGames(Tail(pages))

Evaluate ==
    /\ constructed
    /\ ret' = Returned("evaluate", <<>>, evaluate(Self))
    /\ UNCHANGED <<constructed, data, deck_type, opponent_deck_type_tuples_list,
                   deck_list, max_turn>>

EvaluateDeckList(dl, games) ==
    /\ constructed
    /\ ret' = Returned("evaluate_deck_list", [deck_list |-> dl, games |-> games],
                       evaluate_deck_list(Self, dl, games))
    /\ UNCHANGED <<constructed, data, deck_type, opponent_deck_type_tuples_list,
                   deck_list, max_turn>>

\* The result list printed is one that evaluate() returned.
PrintResult ==
    /\ constructed
    /\ ret.op = "evaluate"
    /\ LET printed == print_result(Self, ret.val)
       IN ret' = [op |-> "print_result", arg |-> ret.val,
                  raised |-> printed.raised, val |-> printed.out]
    /\ UNCHANGED <<constructed, data, deck_type, opponent_deck_type_tuples_list,
                   deck_list, max_turn>>

PrintResultToXlsx ==
    /\ constructed
    /\ ret.op = "evaluate"
    /\ LET written == print_result_to_xlsx(Self, ret.val, DefaultFilename)
       IN ret' = [op |-> "print_result_to_xlsx", arg |-> ret.val,
                  raised |-> written.raised, val |-> written.out]
    /\ UNCHANGED <<constructed, data, deck_type, opponent_deck_type_tuples_list,
                   deck_list, max_turn>>

Next ==
    \/ /\ ~constructed
       /\ \E source \in DataSources, dt \in DeckTypes, ol \in OpponentLists, dl \in DeckLists :
             Construct(source, dt, ol, dl)
    \/ \E v \in (-1)..MaxTurnArg : SetMaxTurn(v)
    \/ Evaluate
    \/ \E dl \in CardLists : EvaluateDeckList(dl, StoredGames(data))
    \/ PrintResult
    \/ PrintResultToXlsx

Spec == Init /\ [][Next]_vars

(***************************************************************************)
(* Properties.  The counts they state are taken over positions of the      *)
(* stored data and of the argument lists, not with the operators above.    *)
(***************************************************************************)
StorePositions == UNION { { <<p, g>> : g \in 1..Len(data[p]) } : p \in 1..Len(data) }

StoredGame(pos) == data[pos[1]][pos[2]]

\* The stored matches of the tracked deck against one opponent pair.
MatchupMatches(pair) ==
    { pos \in StorePositions :
        /\ StoredGame(pos).hero = deck_type[2]
        /\ StoredGame(pos).hero_deck = deck_type[1]
        /\ StoredGame(pos).opponent = pair[2]
        /\ StoredGame(pos).opponent_deck = pair[1] }

\* An eligible play of card: by "me", naming the card in one of its card fields,
\* no later than the ceiling mt.
Eligible(card, play, mt) ==
    /\ play.player = "me"
    /\ (play.card.id = card \/ play.card.name = card)
    /\ play.turn <= mt

\* The eligible plays of card in games, as <<game index, play index>>.
EligiblePlays(card, games, mt) ==
    UNION { { <<k, p>> : p \in { q \in 1..Len(games[k].card_history) :
                                   Eligible(card, games[k].card_history[q], mt) } } :
            k \in 1..Len(games) }

\* The games with at least one eligible play of card, as game indices.
GamesWithCard(card, games, mt) == { kp[1] : kp \in EligiblePlays(card, games, mt) }

\* C1: evaluate() returns one entry per element of opponent_list, in its order;
\* the i-th entry names the i-th pair, counts the stored matches of the tracked
\* deck against that pair and the wins among them; a pair listed twice gives two
\* identical entries.
C1_EvaluateCountsPerPair ==
    ret.op = "evaluate" =>
        /\ Len(ret.val) = Len(opponent_deck_type_tuples_list)
        /\ \A i \in 1..Len(ret.val) :
              LET pair == opponent_deck_type_tuples_list[i]
              IN /\ ret.val[i].opponent = pair[2]
                 /\ ret.val[i].opponent_deck = pair[1]
                 /\ ret.val[i].number_of_games = Cardinality(MatchupMatches(pair))
                 /\ ret.val[i].number_of_wins =
                        Cardinality({ pos \in MatchupMatches(pair) :
                                        StoredGame(pos).result = "win" })
        /\ \A i, j \in 1..Len(ret.val) :
              opponent_deck_type_tuples_list[i] = opponent_deck_type_tuples_list[j]
                  => ret.val[i] = ret.val[j]

\* A pair listed twice, each of its two entries with two matches, one of them won.
C1_Witness ==
    /\ ret.op = "evaluate"
    /\ \E i, j \in 1..Len(ret.val) :
          /\ i < j
          /\ opponent_deck_type_tuples_list[i] = opponent_deck_type_tuples_list[j]
          /\ ret.val[i].number_of_games = 2
          /\ ret.val[i].number_of_wins = 1

\* C2: for every card of the card list, in input order, evaluate_deck_list
\* reports as games with card the number of matches with at least one eligible
\* play of the card (each match once) and as wins with card the number of those
\* matches that were won.
C2_GamesWithCard ==
    ret.op = "evaluate_deck_list" =>
        LET dl == ret.arg.deck_list
            games == ret.arg.games
        IN /\ Len(ret.val) = Len(dl)
           /\ \A j \in 1..Len(dl) :
                 /\ ret.val[j].card = dl[j]
                 /\ ret.val[j].number_of_games_with_card =
                        Cardinality(GamesWithCard(dl[j], games, max_turn))
                 /\ ret.val[j].number_of_wins_with_card =
                        Cardinality({ k \in GamesWithCard(dl[j], games, max_turn) :
                                        games[k].result = "win" })
           /\ (games = <<>> =>
                 \A j \in 1..Len(dl) :
                    /\ ret.val[j].number_of_games_with_card = 0
                    /\ ret.val[j].number_of_wins_with_card = 0
                    /\ ret.val[j].times_played = 0)

\* A match in which the card was replayed is counted once; another match has
\* only an opponent's play of the card.
C2_Witness ==
    /\ ret.op = "evaluate_deck_list"
    /\ Len(ret.arg.games) = 2
    /\ \E j \in 1..Len(ret.val) :
          /\ ret.val[j].number_of_games_with_card = 1
          /\ Cardinality(EligiblePlays(ret.arg.deck_list[j], ret.arg.games, max_turn)) = 2
          /\ \E k \in 1..Len(ret.arg.games) :
                /\ k \notin GamesWithCard(ret.arg.deck_list[j], ret.arg.games, max_turn)
                /\ \E p \in 1..Len(ret.arg.games[k].card_history) :
                      /\ ret.arg.games[k].card_history[p].player = "opponent"
                      /\ ret.arg.games[k].card_history[p].card.name = ret.arg.deck_list[j]

\* C3: times played equals the number of eligible plays of the card over all
\* matches of the list passed in, repeated plays within a match included.
C3_TimesPlayedOverAllGames ==
    ret.op = "evaluate_deck_list" =>
        \A j \in 1..Len(ret.val) :
           ret.val[j].times_played =
               Cardinality(EligiblePlays(ret.arg.deck_list[j], ret.arg.games, max_turn))

\* Two plays in one match, and a match of the list without an eligible play.
C3_Witness ==
    /\ ret.op = "evaluate_deck_list"
    /\ \E j \in 1..Len(ret.val) :
          /\ ret.val[j].times_played = 2
          /\ ret.val[j].number_of_games_with_card = 1
          /\ Len(ret.arg.games) = 2

\* C4: set_max_turn(v) raises and leaves max_turn unchanged when v <= 0, sets
\* max_turn to v when v > 0, and max_turn is positive in every state.
C4_SetMaxTurn ==
    /\ [](max_turn > 0)
    /\ [][ret'.op = "set_max_turn" =>
             IF ret'.arg > 0
             THEN ret'.raised = "none" /\ max_turn' = ret'.arg
             ELSE ret'.raised = "TypeError" /\ max_turn' = max_turn]_vars

\* A rejected call after an accepted one: the accepted ceiling is still there.
C4_Witness ==
    /\ ret.op = "set_max_turn"
    /\ ret.arg <= 0
    /\ ret.raised = "TypeError"
    /\ max_turn = 1

\* C5 as stated: evaluate_deck_list with an empty card list raises.
C5_EmptyCardListRaises ==
    (ret.op = "evaluate_deck_list" /\ ret.arg.deck_list = <<>>) => ret.raised # "none"

\* C5, amended: evaluate_deck_list with an empty card list returns an empty
\* list without an error; only the constructor rejects an empty deck list, so
\* the deck list of a constructed object is never empty.
C5_EmptyCardListReturnsEmpty ==
    /\ (ret.op = "evaluate_deck_list" /\ ret.arg.deck_list = <<>>) =>
           (ret.raised = "none" /\ ret.val = <<>>)
    /\ constructed => deck_list # <<>>
    /\ (ret.op = "__init__" /\ ret.raised # "none") => ~constructed

\* The empty card list evaluated over a non-empty match list.
C5_Witness ==
    /\ ret.op = "evaluate_deck_list"
    /\ ret.arg.deck_list = <<>>
    /\ ret.arg.games # <<>>
    /\ ret.val = <<>>

\* The matchups and cards of a result list whose win rate is defined.
RatedMatchups(rl) == { i \in 1..Len(rl) : rl[i].number_of_games > 0 }

RatedCards(rl) ==
    UNION { { <<i, j>> : j \in { c \in 1..Len(rl[i].cards_evaluated) :
                                   rl[i].cards_evaluated[c].number_of_games_with_card > 0 } } :
            i \in RatedMatchups(rl) }

UnratedCards(rl) ==
    UNION { { <<i, j>> : j \in { c \in 1..Len(rl[i].cards_evaluated) :
                                   rl[i].cards_evaluated[c].number_of_games_with_card = 0 } } :
            i \in RatedMatchups(rl) }

\* C6: on a result list of evaluate(), print_result and print_result_to_xlsx
\* never divide by zero: a win rate is computed once for each matchup with games
\* and once for each of its cards with games, a card without games is left out
\* by print_result and written as N/A by print_result_to_xlsx, and a matchup
\* without games gets no rate.
C6_NoDivisionByZero ==
    /\ ret.op = "print_result" =>
          /\ ret.raised = "none"
          /\ \A i \in 1..Len(ret.val) :
                ret.val[i].text = "Win %" => ret.val[i].args[1].den > 0
          /\ Cardinality({ i \in 1..Len(ret.val) : ret.val[i].text = "Win %" }) =
                Cardinality(RatedMatchups(ret.arg)) + Cardinality(RatedCards(ret.arg))
    /\ ret.op = "print_result_to_xlsx" =>
          LET cells == ret.val.cells
              body == { i \in 1..Len(cells) : cells[i].row > 0 }
          IN /\ ret.raised = "none"
             /\ Cardinality({ i \in body : cells[i].col = 4 /\ cells[i].value.kind = "rate" })
                   = Cardinality(RatedMatchups(ret.arg))
             /\ Cardinality({ i \in body : cells[i].col = 9 /\ cells[i].value.kind = "rate" })
                   = Cardinality(RatedCards(ret.arg))
             /\ Cardinality({ i \in body : cells[i].col = 9 /\ cells[i].value = NA })
                   = Cardinality(UnratedCards(ret.arg))
             /\ \A i \in body : cells[i].col \in {4, 9} => cells[i].value.kind # "ZeroDivisionError"

\* A printed result list with a matchup without games, and a matchup with games
\* that has a card with games and a card without.
C6_Witness ==
    /\ ret.op \in {"print_result", "print_result_to_xlsx"}
    /\ RatedMatchups(ret.arg) # {}
    /\ RatedMatchups(ret.arg) # 1..Len(ret.arg)
    /\ RatedCards(ret.arg) # {}
    /\ UnratedCards(ret.arg) # {}

\* The store with the match at pos taken out.
DataWithout(pos) ==
    [data EXCEPT ![pos[1]] = SubSeq(@, 1, pos[2] - 1) \o SubSeq(@, pos[2] + 1, Len(@))]

\* The match at pos is counted in entry i of the result of evaluate(): without
\* it the entry's number of games is smaller.
CountedIn(pos, i) ==
    evaluate([Self EXCEPT !.data = DataWithout(pos)])[i].number_of_games
        < ret.val[i].number_of_games

\* C7 as stated: every stored match is counted in at most one entry.
C7_CountedInAtMostOneEntry ==
    ret.op = "evaluate" =>
        \A pos \in StorePositions :
           Cardinality({ i \in 1..Len(ret.val) : CountedIn(pos, i) }) <= 1

\* C7, amended: every stored match is counted in the entries of at most one
\* opponent pair: once for each time that pair is listed.
C7_CountedForAtMostOnePair ==
    ret.op = "evaluate" =>
        \A pos \in StorePositions :
           \A i, j \in 1..Len(ret.val) :
              (CountedIn(pos, i) /\ CountedIn(pos, j)) =>
                  opponent_deck_type_tuples_list[i] = opponent_deck_type_tuples_list[j]

\* A match counted in both entries of the pair listed twice, beside a match
\* counted in the entry of another pair.
C7_Witness ==
    /\ ret.op = "evaluate"
    /\ \E pos \in StorePositions :
          Cardinality({ i \in 1..Len(ret.val) : CountedIn(pos, i) }) = 2
    /\ \E pos \in StorePositions :
          Cardinality({ i \in 1..Len(ret.val) : CountedIn(pos, i) }) = 1

\* C8: times played is never less than games with card.
C8_TimesPlayedAtLeastGames ==
    ret.op = "evaluate_deck_list" =>
        \A j \in 1..Len(ret.val) :
           ret.val[j].times_played >= ret.val[j].number_of_games_with_card

\* Times played is greater in one entry and equal, not zero, in another.
C8_Witness ==
    /\ ret.op = "evaluate_deck_list"
    /\ \E j \in 1..Len(ret.val) :
          ret.val[j].times_played > ret.val[j].number_of_games_with_card
    /\ \E j \in 1..Len(ret.val) :
          /\ ret.val[j].times_played = ret.val[j].number_of_games_with_card
          /\ ret.val[j].times_played > 0

\* The ceilings set_max_turn accepts within the bounds, and the default.
Ceilings == (1..MaxTurnArg) \cup {DefaultMaxTurn}

TimesPlayedUnder(mt, j) ==
    evaluate_deck_list([Self EXCEPT !.max_turn = mt], ret.arg.deck_list,
                       ret.arg.games)[j].times_played

\* C9: for the same card and match list, times played under a lower ceiling is
\* at most times played under a higher ceiling.
C9_TurnWindowMonotone ==
    ret.op = "evaluate_deck_list" =>
        \A mt \in Ceilings : \A j \in 1..Len(ret.val) :
           /\ mt < max_turn => TimesPlayedUnder(mt, j) <= ret.val[j].times_played
           /\ mt > max_turn => TimesPlayedUnder(mt, j) >= ret.val[j].times_played

\* A lower ceiling under which the card was played less often, but played.
C9_Witness ==
    /\ ret.op = "evaluate_deck_list"
    /\ \E mt \in Ceilings : \E j \in 1..Len(ret.val) :
          /\ mt < max_turn
          /\ TimesPlayedUnder(mt, j) < ret.val[j].times_played
          /\ TimesPlayedUnder(mt, j) > 0

\* The matches of the scenario: A won with Coin played by me on turn 1, B lost
\* without Coin.
MatchA == Game(Tracked, P1, "win", <<Play("me", Coin, 1)>>)
MatchB == Game(Tracked, P1, "loss", <<>>)

\* Coin is evaluated over A and B right after set_max_turn(0).
CoinEvaluatedAfterSetZero ==
    /\ ret.op = "set_max_turn"
    /\ ret.arg = 0
    /\ ret'.op = "evaluate_deck_list"
    /\ ret'.arg.deck_list = <<"Coin">>
    /\ ret'.arg.games = <<MatchA, MatchB>>

\* C10 as stated: after set_max_turn(0), Coin over A and B has times played 0
\* and games with card 0.
C10_ZeroCeilingGivesZero ==
    [][CoinEvaluatedAfterSetZero =>
          /\ ret'.val[1].times_played = 0
          /\ ret'.val[1].number_of_games_with_card = 0]_vars

\* C10, amended: set_max_turn(0) raises and leaves the positive ceiling in
\* place, so Coin over A and B evaluated after it has times played 1 and games
\* with card 1.
C10_ZeroCeilingRejected ==
    [][CoinEvaluatedAfterSetZero =>
          /\ ret.raised = "TypeError"
          /\ max_turn > 0
          /\ ret'.val[1].times_played = 1
          /\ ret'.val[1].number_of_games_with_card = 1
          /\ ret'.val[1].number_of_wins_with_card = 1]_vars

\* set_max_turn(0) was called on a store holding A and B, where Coin then
\* evaluates to one play in one game.
C10_Witness ==
    /\ ret.op = "set_max_turn"
    /\ ret.arg = 0
    /\ ret.raised = "TypeError"
    /\ StoredGames(data) = <<MatchA, MatchB>>
    /\ evaluate_deck_list(Self, <<"Coin">>, StoredGames(data))[1].times_played = 1
    /\ evaluate_deck_list(Self, <<"Coin">>, StoredGames(data))[1].number_of_games_with_card = 1

====
